---- MODULE Spec2Model ----
(***************************************************************************)
(* ser2tcp-tester: the Generator (backlog of generated bytes and its       *)
(* validate oracle), the tx and rx threads GenericDevice::create spawns    *)
(* around one shared Arc<Mutex<Generator>> (echo mode), and main's         *)
(* stop/join sequence.                                                     *)
(***************************************************************************)
EXTENDS Integers, Sequences, FiniteSets, TLC

\* ---------------------------------------------------------------- constants
ChunkSize == 100
BufSize == 2048
\* the measurement window, from_secs(1), in seconds
Window == 1

\* ------------------------------------------------------------------- bounds
\* chunks the tx loop generates before the flag is set; one more is let
\* through once it is set, which is all a loop that honours the flag needs
MaxChunks == 2
\* generate/validate calls in one sequential history of a Generator
MaxCalls == 4
\* bytes the faulty device returns that were never written to it
MaxSpurious == 1
\* seconds the clock is followed past the start of a window
MaxElapsed == 1

VARIABLES
    queue,      \* Generator.queue, the backlog (oldest byte first)
    lock,       \* owner of the Mutex<Generator>: "none", "tx" or "rx"
    poisoned,   \* the Mutex was held by a thread that panicked
    stop,       \* the AtomicBool shared by main and both threads
    txpc,       \* position of the tx thread
    txData,     \* the chunk generate returned, until write_all is over
    txErr,      \* the error write_all returned, "none" if it never failed
    rxpc,       \* position of the rx thread
    rxBuf,      \* buf[0..n] of the last Ok(n) read
    rxRead,     \* outcome of the last read
    rxRes,      \* outcome of the last validate of the rx thread
    bytes,      \* rx thread's rolling byte counter
    mainpc,     \* position of main
    threads,    \* GenericDevice.threads, the handles not yet joined
    proc,       \* the process: "running", or how it ended
    wire,       \* bytes written to the device and not yet read back
    perfect,    \* the device is a perfect echo (no fault of any kind)
    spurious,   \* number of bytes the device returned that were never written
    handed,     \* history: every byte write_all handed to the device
    unwritten,  \* history: generated bytes not (yet) handed to the device
    consumed,   \* history: number of bytes validate calls have taken
    nGen,       \* history: number of generate calls
    elapsed,    \* whole seconds since begin, begin.elapsed() of the rx thread
    reported,   \* the rx iteration under way has printed the speed
    reportedAt, \* history: consumed when the speed was last printed
    genAfterStop,   \* history: generate calls made with the flag set
    readAfterStop,  \* history: reads made with the flag set
    op,         \* sequential history: the last call made
    arg,        \* sequential history: the data of the last validate
    res,        \* sequential history: what the last validate did
    pre,        \* sequential history: the backlog before the last call
    calls,      \* sequential history: number of calls made
    rt,         \* round trip: "off", "on", or "bad" (other data validated)
    rtBase,     \* round trip: the backlog when the round trip began
    rtOwed      \* round trip: bytes generated since and not yet validated

genVars == <<op, arg, res, pre, calls, rt, rtBase, rtOwed>>
txVars == <<txpc, txData, txErr>>
rxVars == <<rxpc, rxBuf, rxRead, rxRes, bytes>>
mainVars == <<mainpc, threads>>
histVars == <<handed, unwritten, consumed, nGen>>
obsVars == <<elapsed, reported, reportedAt, genAfterStop, readAfterStop>>
devVars == <<queue, lock, poisoned, stop, proc, wire, perfect, spurious>>
vars == <<queue, lock, poisoned, stop, txpc, txData, txErr, rxpc, rxBuf,
          rxRead, rxRes, bytes, mainpc, threads, proc, wire, perfect, spurious,
          handed, unwritten, consumed, nGen,
          elapsed, reported, reportedAt, genAfterStop, readAfterStop,
          op, arg, res, pre, calls, rt, rtBase, rtOwed>>

\* ---------------------------------------------------------------- Generator
Min(a, b) == IF a < b THEN a ELSE b

Drop(s, n) == SubSeq(s, n + 1, Len(s))

Take(s, n) == SubSeq(s, 1, n)

\* vec![0_u8; 100]
Chunk == [i \in 1..ChunkSize |-> 0]

\* a generate that forgets the last byte of the chunk in the backlog
generate_short(q) ==
    [queue |-> q \o Take(Chunk, ChunkSize - 1), data |-> Chunk]

\* a generate that replaces the backlog by the new chunk
generate_reset(q) ==
    [queue |-> Chunk, data |-> Chunk]

\* Generator::generate: the chunk is appended to the backlog and returned
generate(q) ==
    [queue |-> q \o Chunk, data |-> Chunk]

\* a validate that compares the lengths only
validate_lenOnly(q, data) ==
    IF Len(data) > Len(q)
    THEN [queue |-> q, result |-> "Panic"]
    ELSE [queue |-> Drop(q, Len(data)),
          result |-> IF Len(Take(q, Len(data))) = Len(data)
                     THEN "Ok" ELSE "Err"]

\* a validate that compares without taking the bytes off the backlog
validate_peek(q, data) ==
    IF Len(data) > Len(q)
    THEN [queue |-> q, result |-> "Panic"]
    ELSE [queue |-> q,
          result |-> IF Take(q, Len(data)) = data THEN "Ok" ELSE "Err"]

\* a validate that takes the bytes off the backlog only when they match
validate_keepOnErr(q, data) ==
    IF Len(data) > Len(q)
    THEN [queue |-> q, result |-> "Panic"]
    ELSE IF Take(q, Len(data)) = data
         THEN [queue |-> Drop(q, Len(data)), result |-> "Ok"]
         ELSE [queue |-> q, result |-> "Err"]

\* a validate that refuses, without a panic, whatever is not shorter than
\* the backlog
validate_strict(q, data) ==
    IF Len(data) >= Len(q)
    THEN [queue |-> q, result |-> "Err"]
    ELSE LET reference == Take(q, Len(data))
         IN  [queue |-> Drop(q, Len(data)),
              result |-> IF reference = data THEN "Ok" ELSE "Err"]

\* Generator::validate: VecDeque::drain(0..data.len()) panics, before it
\* removes anything, when the range ends beyond the deque; otherwise the
\* drained bytes are compared with data and removed whatever the outcome
validate(q, data) ==
    IF Len(data) > Len(q)
    THEN [queue |-> q, result |-> "Panic"]
    ELSE LET reference == Take(q, Len(data))
         IN  [queue |-> Drop(q, Len(data)),
              result |-> IF reference = data THEN "Ok" ELSE "Err"]

\* ------------------------------------------------------------------- inputs
Zeros(n) == [i \in 1..n |-> 0]

\* the values a changed byte takes
FlipValues == {1, 255}

\* the positions at which a slice of n bytes is changed
FlipAt(n) == IF n = 0 THEN {} ELSE {1, (n + 1) \div 2, n}

Flips(d) ==
    {[d EXCEPT ![k] = b] : k \in FlipAt(Len(d)), b \in FlipValues}

\* slice lengths tried against a sequence of len bytes: nothing, one byte,
\* part of a chunk, a chunk, more than a chunk, everything, one too many
SliceLens(len) ==
    {n \in {0, 1, 30, ChunkSize - 30, ChunkSize, ChunkSize + 30} : n <= len}
        \cup {len, len + 1}

\* ------------------------------------------------------------ initial state
InitCommon ==
    /\ queue = <<>>
    /\ lock = "none"
    /\ poisoned = FALSE
    /\ stop = FALSE
    /\ txpc = "lock"
    /\ txData = <<>>
    /\ txErr = "none"
    /\ rxpc = "read"
    /\ rxBuf = <<>>
    /\ rxRead = "none"
    /\ rxRes = "none"
    /\ bytes = 0
    /\ mainpc = "recv"
    /\ threads = <<"tx", "rx">>
    /\ proc = "running"
    /\ wire = <<>>
    /\ spurious = 0
    /\ handed = <<>>
    /\ unwritten = <<>>
    /\ consumed = 0
    /\ nGen = 0
    /\ elapsed = 0
    /\ reported = FALSE
    /\ reportedAt = 0
    /\ genAfterStop = 0
    /\ readAfterStop = 0
    /\ op = "none"
    /\ arg = <<>>
    /\ res = "none"
    /\ pre = <<>>
    /\ calls = 0
    /\ rt = "off"
    /\ rtBase = <<>>
    /\ rtOwed = <<>>

\* ------------------------------------------- sequential use of a Generator
\* Generator::create, then generate and validate called by one caller, as
\* test_generator does
InitGen ==
    /\ InitCommon
    /\ perfect = TRUE

GenCall ==
    /\ res # "Panic"
    /\ calls < MaxCalls
    /\ LET g == generate(queue)
       IN  /\ queue' = g.queue
           /\ rtOwed' = IF rt = "on" THEN rtOwed \o g.data ELSE rtOwed
    /\ op' = "generate"
    /\ arg' = <<>>
    /\ res' = "none"
    /\ pre' = queue
    /\ calls' = calls + 1
    /\ UNCHANGED <<rt, rtBase>>
    /\ UNCHANGED <<lock, poisoned, stop, proc, wire, perfect, spurious>>
    /\ UNCHANGED <<txVars, rxVars, mainVars, histVars>>
    /\ UNCHANGED obsVars

\* the data a caller may pass: the oldest bytes of the backlog, the same
\* with one byte changed, and slices longer than the backlog
ValInputs ==
    LET exact == {Take(queue \o Zeros(1), n) : n \in SliceLens(Len(queue))}
    IN  exact \cup UNION {Flips(d) : d \in exact}

ValCall(data) ==
    /\ res # "Panic"
    /\ calls < MaxCalls
    /\ LET v == validate(queue, data)
       IN  /\ queue' = v.queue
           /\ res' = v.result
    /\ op' = "validate"
    /\ arg' = data
    /\ pre' = queue
    /\ calls' = calls + 1
    /\ IF rt = "on" /\ Len(data) <= Len(rtOwed) /\ data = Take(rtOwed, Len(data))
       THEN rtOwed' = Drop(rtOwed, Len(data)) /\ rt' = rt
       ELSE rtOwed' = rtOwed /\ rt' = IF rt = "on" THEN "bad" ELSE rt
    /\ UNCHANGED rtBase
    /\ UNCHANGED <<lock, poisoned, stop, proc, wire, perfect, spurious>>
    /\ UNCHANGED <<txVars, rxVars, mainVars, histVars>>
    /\ UNCHANGED obsVars

Validate == \E data \in ValInputs : ValCall(data)

\* the caller notes the backlog and starts a round trip: what is generated
\* from here on is validated back in order
RtMark ==
    /\ res # "Panic"
    /\ rt = "off"
    /\ rt' = "on"
    /\ rtBase' = queue
    /\ rtOwed' = <<>>
    /\ op' = "mark"
    /\ arg' = <<>>
    /\ res' = "none"
    /\ UNCHANGED <<pre, calls>>
    /\ UNCHANGED devVars
    /\ UNCHANGED <<txVars, rxVars, mainVars, histVars>>
    /\ UNCHANGED obsVars

NextGen == GenCall \/ Validate \/ RtMark

SpecGen == InitGen /\ [][NextGen]_vars

\* ------------------------------------- GenericDevice::create and main (echo)
\* echo mode: tx_generator and rx_generator are the same Arc<Mutex<Generator>>
Init ==
    /\ InitCommon
    /\ perfect \in BOOLEAN

\* lengths a read may return from a device holding len bytes: buf is 2048
\* bytes long, and a read returns any part of what has arrived
ReadLens(len) ==
    {n \in {0, ChunkSize \div 2} : n <= Min(len, BufSize)}
        \cup {Min(len, BufSize)}

\* lengths of the part of a chunk a failed write_all had written
PartialLens == {0, 30}

\* a tx loop that goes into generate without waiting for the Mutex
TxLock_noMutex ==
    /\ proc = "running"
    /\ txpc = "lock"
    /\ nGen < MaxChunks + (IF stop THEN 1 ELSE 0)
    /\ IF poisoned
       THEN txpc' = "panicked" /\ lock' = lock
       ELSE txpc' = "generate" /\ lock' = "tx"
    /\ UNCHANGED <<queue, poisoned, stop, proc, wire, perfect, spurious>>
    /\ UNCHANGED <<txData, txErr, rxVars, mainVars, histVars, genVars>>
    /\ UNCHANGED obsVars

\* tx, line 66: tx_generator.lock().unwrap(); a poisoned Mutex makes lock()
\* return Err and unwrap panic, which ends the thread
TxLock ==
    /\ proc = "running"
    /\ txpc = "lock"
    /\ lock = "none"
    /\ nGen < MaxChunks + (IF stop THEN 1 ELSE 0)
    /\ IF poisoned
       THEN txpc' = "panicked" /\ lock' = lock
       ELSE txpc' = "generate" /\ lock' = "tx"
    /\ UNCHANGED <<queue, poisoned, stop, proc, wire, perfect, spurious>>
    /\ UNCHANGED <<txData, txErr, rxVars, mainVars, histVars, genVars>>
    /\ UNCHANGED obsVars

\* a tx loop that binds the guard to a name and so keeps the Mutex after
\* generate, through write_all and the sleep
TxGenerate_holdLock ==
    /\ proc = "running"
    /\ txpc = "generate"
    /\ lock = "tx"
    /\ LET g == generate(queue)
       IN  /\ queue' = g.queue
           /\ txData' = g.data
           /\ unwritten' = g.data
    /\ lock' = lock
    /\ nGen' = nGen + 1
    /\ txpc' = "write"
    /\ UNCHANGED <<poisoned, stop, proc, wire, perfect, spurious>>
    /\ UNCHANGED <<txErr, rxVars, mainVars, handed, consumed, genVars>>
    /\ genAfterStop' = genAfterStop + (IF stop THEN 1 ELSE 0)
    /\ UNCHANGED <<elapsed, reported, reportedAt, readAfterStop>>

\* tx, line 66: generate() under the lock; the guard is dropped at the end
\* of the statement
TxGenerate ==
    /\ proc = "running"
    /\ txpc = "generate"
    /\ lock = "tx"
    /\ LET g == generate(queue)
       IN  /\ queue' = g.queue
           /\ txData' = g.data
           /\ unwritten' = g.data
    /\ lock' = "none"
    /\ nGen' = nGen + 1
    /\ txpc' = "write"
    /\ UNCHANGED <<poisoned, stop, proc, wire, perfect, spurious>>
    /\ UNCHANGED <<txErr, rxVars, mainVars, handed, consumed, genVars>>
    /\ genAfterStop' = genAfterStop + (IF stop THEN 1 ELSE 0)
    /\ UNCHANGED <<elapsed, reported, reportedAt, readAfterStop>>

\* a write_all whose error is printed and the loop goes on
TxWrite_goOn ==
    /\ proc = "running"
    /\ txpc = "write"
    /\ \/ /\ wire' = wire \o txData
          /\ handed' = handed \o txData
          /\ unwritten' = <<>>
          /\ txErr' = txErr
       \/ /\ ~perfect
          /\ \E e \in {"TimedOut", "BrokenPipe"}, k \in PartialLens :
                /\ wire' = wire \o Take(txData, k)
                /\ handed' = handed \o Take(txData, k)
                /\ unwritten' = Drop(txData, k)
                /\ txErr' = e
    /\ txData' = <<>>
    /\ txpc' = "check"
    /\ UNCHANGED <<queue, lock, poisoned, stop, proc, perfect, spurious>>
    /\ UNCHANGED <<rxVars, mainVars, consumed, nGen, genVars>>
    /\ UNCHANGED obsVars

\* tx, lines 67-70: write_all(&data); any error, a timeout included, is
\* printed and exit(1) ends the process
TxWrite ==
    /\ proc = "running"
    /\ txpc = "write"
    /\ \/ /\ wire' = wire \o txData
          /\ handed' = handed \o txData
          /\ unwritten' = <<>>
          /\ txData' = <<>>
          /\ txpc' = "check"
          /\ UNCHANGED <<txErr, proc>>
       \/ /\ ~perfect
          /\ \E e \in {"TimedOut", "BrokenPipe"}, k \in PartialLens :
                /\ wire' = wire \o Take(txData, k)
                /\ handed' = handed \o Take(txData, k)
                /\ unwritten' = Drop(txData, k)
                /\ txErr' = e
          /\ proc' = "exit1"
          /\ UNCHANGED <<txData, txpc>>
    /\ UNCHANGED <<queue, lock, poisoned, stop, perfect, spurious>>
    /\ UNCHANGED <<rxVars, mainVars, consumed, nGen, genVars>>
    /\ UNCHANGED obsVars

\* a tx loop that never looks at the flag
TxCheckStop_never ==
    /\ proc = "running"
    /\ txpc = "check"
    /\ txpc' = "sleep"
    /\ UNCHANGED <<devVars, txData, txErr, rxVars, mainVars, histVars, genVars>>
    /\ UNCHANGED obsVars

\* tx, lines 71-73 and 76: stop_tx.load(); break ends the thread
TxCheckStop ==
    /\ proc = "running"
    /\ txpc = "check"
    /\ txpc' = IF stop THEN "done" ELSE "sleep"
    /\ UNCHANGED <<devVars, txData, txErr, rxVars, mainVars, histVars, genVars>>
    /\ UNCHANGED obsVars

\* tx, line 74: thread::sleep(1 ms), then the next iteration
TxSleep ==
    /\ proc = "running"
    /\ txpc = "sleep"
    /\ txpc' = "lock"
    /\ UNCHANGED <<devVars, txData, txErr, rxVars, mainVars, histVars, genVars>>
    /\ UNCHANGED obsVars

TxNext == TxLock \/ TxGenerate \/ TxWrite \/ TxCheckStop \/ TxSleep

\* rx, line 87: rx_device.read(&mut buf). Ok(n) hands over the first n bytes
\* the device holds (n = 0, noted "Zero", too); Err is a timeout or, on a faulty device, a
\* failure such as a connection reset; a faulty device also returns bytes it
\* changed, or a byte that was never written
RxRead ==
    /\ proc = "running"
    /\ rxpc = "read"
    /\ \/ /\ \E n \in ReadLens(Len(wire)) :
                /\ rxBuf' = Take(wire, n)
                /\ wire' = Drop(wire, n)
                /\ rxRead' = IF n = 0 THEN "Zero" ELSE "Ok"
          /\ rxpc' = "lock"
          /\ spurious' = spurious
       \/ /\ rxRead' = "TimedOut"
          /\ rxpc' = "check"
          /\ rxBuf' = <<>>
          /\ UNCHANGED <<wire, spurious>>
       \/ /\ ~perfect
          /\ rxRead' = "ConnectionReset"
          /\ rxpc' = "check"
          /\ rxBuf' = <<>>
          /\ UNCHANGED <<wire, spurious>>
       \/ /\ ~perfect
          /\ \E n \in ReadLens(Len(wire)) :
                /\ rxBuf' \in Flips(Take(wire, n))
                /\ wire' = Drop(wire, n)
          /\ rxRead' = "Ok"
          /\ rxpc' = "lock"
          /\ spurious' = spurious
       \/ /\ ~perfect
          /\ spurious < MaxSpurious
          /\ Len(wire) < BufSize
          /\ rxBuf' = wire \o Zeros(1)
          /\ wire' = <<>>
          /\ rxRead' = "Ok"
          /\ rxpc' = "lock"
          /\ spurious' = spurious + 1
    /\ UNCHANGED <<queue, lock, poisoned, stop, proc, perfect>>
    /\ UNCHANGED <<rxRes, bytes, txVars, mainVars, histVars, genVars>>
    /\ readAfterStop' = readAfterStop + (IF stop THEN 1 ELSE 0)
    /\ UNCHANGED <<elapsed, reported, reportedAt, genAfterStop>>

\* rx, line 88: rx_generator.lock().unwrap()
RxLock ==
    /\ proc = "running"
    /\ rxpc = "lock"
    /\ lock = "none"
    /\ IF poisoned
       THEN rxpc' = "panicked" /\ lock' = lock
       ELSE rxpc' = "validate" /\ lock' = "rx"
    /\ UNCHANGED <<queue, poisoned, stop, proc, wire, perfect, spurious>>
    /\ UNCHANGED <<rxBuf, rxRead, rxRes, bytes>>
    /\ UNCHANGED <<txVars, mainVars, histVars, genVars>>
    /\ UNCHANGED obsVars

\* an rx loop that drops the result of validate and goes on
RxValidate_absorb ==
    /\ proc = "running"
    /\ rxpc = "validate"
    /\ lock = "rx"
    /\ LET v == validate(queue, rxBuf)
       IN  /\ queue' = v.queue
           /\ rxRes' = v.result
           /\ consumed' = consumed + (Len(queue) - Len(v.queue))
    /\ bytes' = bytes + Len(rxBuf)
    /\ rxBuf' = <<>>
    /\ rxpc' = "check"
    /\ lock' = "none"
    /\ UNCHANGED <<poisoned, stop, proc, wire, perfect, spurious>>
    /\ UNCHANGED <<rxRead, txVars, mainVars, handed, unwritten, nGen, genVars>>
    /\ UNCHANGED obsVars

\* rx, lines 88-89: validate(&buf[0..n]).unwrap() under the lock, then
\* bytes = bytes + n. A panic of validate, or of unwrap on its Err, unwinds
\* through the guard: the Mutex is released poisoned and the thread ends
RxValidate ==
    /\ proc = "running"
    /\ rxpc = "validate"
    /\ lock = "rx"
    /\ LET v == validate(queue, rxBuf)
       IN  /\ queue' = v.queue
           /\ rxRes' = v.result
           /\ consumed' = consumed + (IF v.result = "Panic" THEN 0 ELSE Len(rxBuf))
           /\ IF v.result = "Ok"
              THEN /\ bytes' = bytes + Len(rxBuf)
                   /\ rxBuf' = <<>>
                   /\ rxpc' = "check"
                   /\ poisoned' = poisoned
              ELSE /\ bytes' = bytes
                   /\ rxBuf' = <<>>
                   /\ rxpc' = "panicked"
                   /\ poisoned' = TRUE
    /\ lock' = "none"
    /\ UNCHANGED <<stop, proc, wire, perfect, spurious>>
    /\ UNCHANGED <<rxRead, txVars, mainVars, handed, unwritten, nGen, genVars>>
    /\ UNCHANGED obsVars

\* an rx loop that looks at the window before it looks at the flag
RxCheckStop_reportFirst ==
    /\ proc = "running"
    /\ rxpc = "check"
    /\ IF stop /\ elapsed >= Window
       THEN /\ reported' = TRUE
            /\ bytes' = 0
            /\ elapsed' = 0
            /\ reportedAt' = consumed
       ELSE UNCHANGED <<reported, bytes, elapsed, reportedAt>>
    /\ rxpc' = IF stop THEN "done" ELSE "window"
    /\ UNCHANGED <<devVars, rxBuf, rxRead, rxRes>>
    /\ UNCHANGED <<txVars, mainVars, histVars, genVars>>
    /\ UNCHANGED <<genAfterStop, readAfterStop>>

\* rx, lines 91-93 and 101: stop_rx.load(); break ends the thread
RxCheckStop ==
    /\ proc = "running"
    /\ rxpc = "check"
    /\ rxpc' = IF stop THEN "done" ELSE "window"
    /\ UNCHANGED <<devVars, rxBuf, rxRead, rxRes, bytes>>
    /\ UNCHANGED <<txVars, mainVars, histVars, genVars>>
    /\ UNCHANGED obsVars

\* an rx loop that prints the speed and leaves the counter as it is
RxWindow_noReset ==
    /\ proc = "running"
    /\ rxpc = "window"
    /\ IF elapsed >= Window
       THEN /\ reported' = TRUE
            /\ bytes' = bytes
            /\ elapsed' = 0
            /\ reportedAt' = reportedAt
       ELSE UNCHANGED <<reported, bytes, elapsed, reportedAt>>
    /\ rxpc' = "sleep"
    /\ UNCHANGED <<devVars, rxBuf, rxRead, rxRes>>
    /\ UNCHANGED <<txVars, mainVars, histVars, genVars>>
    /\ UNCHANGED <<genAfterStop, readAfterStop>>

\* rx, lines 94-98: once begin.elapsed() is a second or more the speed is
\* printed, the counter is reset and begin is set to now (the clock is taken
\* not to step backwards)
RxWindow ==
    /\ proc = "running"
    /\ rxpc = "window"
    /\ IF elapsed >= Window
       THEN /\ reported' = TRUE
            /\ bytes' = 0
            /\ elapsed' = 0
            /\ reportedAt' = consumed
       ELSE UNCHANGED <<reported, bytes, elapsed, reportedAt>>
    /\ rxpc' = "sleep"
    /\ UNCHANGED <<devVars, rxBuf, rxRead, rxRes>>
    /\ UNCHANGED <<txVars, mainVars, histVars, genVars>>
    /\ UNCHANGED <<genAfterStop, readAfterStop>>

\* rx, line 99: thread::sleep(1 ms); the iteration is over and the next one
\* begins
RxSleep ==
    /\ proc = "running"
    /\ rxpc = "sleep"
    /\ rxpc' = "read"
    /\ reported' = FALSE
    /\ UNCHANGED <<devVars, rxBuf, rxRead, rxRes, bytes>>
    /\ UNCHANGED <<txVars, mainVars, histVars, genVars>>
    /\ UNCHANGED <<elapsed, reportedAt, genAfterStop, readAfterStop>>

RxNext == RxRead \/ RxLock \/ RxValidate \/ RxCheckStop \/ RxWindow \/ RxSleep

\* main, lines 229-232: recv() returns on ctrl-c, then stop.store(true)
MainStop ==
    /\ proc = "running"
    /\ mainpc = "recv"
    /\ stop' = TRUE
    /\ mainpc' = "join"
    /\ UNCHANGED <<queue, lock, poisoned, proc, wire, perfect, spurious>>
    /\ UNCHANGED <<threads, txVars, rxVars, histVars, genVars>>
    /\ UNCHANGED obsVars

ThreadPc(t) == IF t = "tx" THEN txpc ELSE rxpc

\* main, lines 233-237: threads.pop() takes the last handle (rx first);
\* join() waits for the thread to end, and unwrap panics, ending the
\* process, if the thread had panicked
MainJoin ==
    /\ proc = "running"
    /\ mainpc = "join"
    /\ threads # <<>>
    /\ LET t == threads[Len(threads)]
       IN  /\ ThreadPc(t) \in {"done", "panicked"}
           /\ IF ThreadPc(t) = "panicked"
              THEN mainpc' = "panicked" /\ proc' = "panic"
              ELSE mainpc' = mainpc /\ proc' = proc
    /\ threads' = Take(threads, Len(threads) - 1)
    /\ UNCHANGED <<queue, lock, poisoned, stop, wire, perfect, spurious>>
    /\ UNCHANGED <<txVars, rxVars, histVars, genVars>>
    /\ UNCHANGED obsVars

\* main, line 239: Ok(()) once every handle is joined; the process ends
MainReturn ==
    /\ proc = "running"
    /\ mainpc = "join"
    /\ threads = <<>>
    /\ mainpc' = "done"
    /\ proc' = "ok"
    /\ UNCHANGED <<queue, lock, poisoned, stop, wire, perfect, spurious>>
    /\ UNCHANGED <<threads, txVars, rxVars, histVars, genVars>>
    /\ UNCHANGED obsVars

MainNext == MainStop \/ MainJoin \/ MainReturn

\* rx, lines 83 and 94: the system clock moves on by a second; nothing but
\* begin.elapsed() on line 94 looks at it, so it moves while the rx thread
\* is on its way there, at the check of the flag or at the window check
Tick ==
    /\ proc = "running"
    /\ rxpc \in {"check", "window"}
    /\ elapsed < MaxElapsed
    /\ elapsed' = elapsed + 1
    /\ UNCHANGED <<devVars, txVars, rxVars, mainVars, histVars, genVars>>
    /\ UNCHANGED <<reported, reportedAt, genAfterStop, readAfterStop>>

Next == TxNext \/ RxNext \/ MainNext \/ Tick

Spec == Init /\ [][Next]_vars

\* both threads are scheduled for as long as they can take a step, and main,
\* once it has set the flag, goes through its joins
FairSpec ==
    /\ Spec
    /\ WF_vars(TxNext)
    /\ WF_vars(RxNext)
    /\ WF_vars(MainJoin \/ MainReturn)

\* ------------------------------------------------------------------ claims

\* C1: a validate that asks for no more than the backlog holds returns Ok
\* exactly when its data are the oldest bytes of the backlog, byte for byte;
\* a chunk with one byte changed is refused.
C1_ValidateIffOldest ==
    (op = "validate" /\ Len(arg) <= Len(pre))
        => (res = "Ok" <=> arg = Take(pre, Len(arg)))

\* a generated chunk came back with one byte changed and was refused
C1_Witness ==
    /\ op = "validate"
    /\ calls >= 2
    /\ Len(arg) = ChunkSize
    /\ arg \in Flips(Take(pre, ChunkSize))
    /\ res = "Err"

\* C2: a validate that asks for more bytes than the backlog holds returns a
\* mismatch error to its caller; it does not panic.
C2_UnderSupplyIsErr ==
    (op = "validate" /\ Len(arg) > Len(pre)) => res = "Err"

\* C3: whatever is generated after a backlog was noted and validated back in
\* order, in slices, is accepted at every call, and once all of it has been
\* validated the backlog is what it was.
C3_RoundTrip ==
    /\ (rt = "on" /\ op = "validate") => res = "Ok"
    /\ (rt = "on" /\ rtOwed = <<>>) => queue = rtBase

\* a chunk generated on top of a backlog has been validated back in two
\* slices
C3_Witness ==
    /\ rt = "on"
    /\ rtOwed = <<>>
    /\ rtBase # <<>>
    /\ op = "validate"
    /\ arg # <<>>
    /\ Len(arg) < ChunkSize
    /\ res = "Ok"

\* C4: over a perfect echo no validate fails or asks for more than the
\* backlog holds, and while nobody is inside generate or validate the
\* backlog is as long as the bytes generated less the bytes validated.
C4_PerfectEcho ==
    perfect =>
        /\ rxRes \in {"none", "Ok"}
        /\ rxpc # "panicked"
        /\ rxpc = "validate" => Len(rxBuf) <= Len(queue)
        /\ lock = "none" => Len(queue) = nGen * ChunkSize - consumed

\* rx is about to validate part of what was echoed while tx waits for the
\* lock to generate again
C4_Witness ==
    /\ perfect
    /\ rxpc = "validate"
    /\ rxBuf # <<>>
    /\ txpc = "lock"
    /\ consumed > 0
    /\ nGen >= 2

\* C5: once the flag is set on a device without fault, both loops end and
\* main gets through both joins.
C5_Shutdown ==
    (stop /\ perfect)
        ~> (txpc = "done" /\ rxpc = "done" /\ threads = <<>> /\ mainpc = "done")

\* the flag was set while chunks were in flight and everything has ended
C5_Witness ==
    /\ perfect
    /\ stop
    /\ txpc = "done"
    /\ rxpc = "done"
    /\ threads = <<>>
    /\ mainpc = "done"
    /\ nGen > MaxChunks

\* C6 as stated: at every instant the backlog is exactly the bytes handed to
\* the device and not yet taken by a validate.
C6_BacklogIsHanded ==
    queue = Drop(handed, consumed)

\* C6: at every instant the backlog is, in order, the bytes handed to the
\* device followed by the generated bytes write_all has not handed over,
\* less the bytes validate calls have taken.
C6_BacklogIsGenerated ==
    queue = Drop(handed \o unwritten, consumed)

\* a chunk is in the backlog and not yet written, after earlier bytes were
\* validated
C6_Witness ==
    /\ txpc = "write"
    /\ unwritten = Chunk
    /\ consumed > 0
    /\ queue # Drop(handed, consumed)

\* C7: a validate that fails ends the rx loop there and then: the thread
\* neither reads nor validates again.
C7_MismatchEndsRx ==
    /\ [](rxRes \in {"Err", "Panic"} => rxpc = "panicked")
    /\ [][rxpc = "panicked" => UNCHANGED rxVars]_vars

\* the rx thread has ended on a mismatch with the flag still clear
C7_Witness ==
    /\ rxRes = "Err"
    /\ rxpc = "panicked"
    /\ ~stop
    /\ proc = "running"

\* C8: after a read that failed for another reason than a timeout the rx
\* loop reads no more.
C8_ReadFaultEndsRx ==
    [][rxRead = "ConnectionReset" => ~(rxpc = "read" /\ rxpc' # "read")]_vars

\* C9: a write that failed, wholly or in part, ends the tx loop: nothing is
\* generated or written after it.
C9_WriteFaultEndsTx ==
    /\ [](txErr # "none" => proc = "exit1")
    /\ [][txErr # "none" => UNCHANGED <<txVars, queue, wire, handed, nGen>>]_vars

\* write_all failed after part of the chunk and the process has exited
C9_Witness ==
    /\ txErr = "BrokenPipe"
    /\ proc = "exit1"
    /\ unwritten # <<>>
    /\ Len(unwritten) < ChunkSize
    /\ nGen >= 2

\* C10: a fault ends the loop it hit and no other: after a mismatch the tx
\* loop ends only on the flag or a write fault of its own, and after a write
\* fault the rx loop runs on until it sees the flag or fails itself.
C10_FaultIsLocal ==
    /\ rxRes \in {"Err", "Panic"} => txpc # "panicked"
    /\ (txErr # "none" /\ rxpc \notin {"done", "panicked"}) => proc = "running"

\* C11: the process never ends before both threads have ended and main has
\* joined them.
C11_JoinedBeforeEnd ==
    proc # "running" =>
        /\ threads = <<>>
        /\ txpc \in {"done", "panicked"}
        /\ rxpc \in {"done", "panicked"}

\* C12: a read that times out or returns no byte is no error: the rx thread
\* does not end on it, its step leaves the backlog and the byte counter as
\* they are, and the loop goes on to its check of the flag and, the flag
\* clear, to the rest of the iteration.
C12_IdleReadIsRoutine ==
    /\ [](rxRead \in {"Zero", "TimedOut"} => rxpc # "panicked")
    /\ [][(rxpc = "read" /\ rxpc' # "read" /\ rxRead' = "TimedOut")
            => (rxpc' = "check" /\ UNCHANGED <<queue, bytes>>)]_vars
    /\ [][(rxRead = "Zero" /\ rxpc = "validate" /\ rxpc' # "validate")
            => (rxpc' = "check" /\ rxRes' = "Ok" /\ UNCHANGED <<queue, bytes>>)]_vars
    /\ [][(rxRead \in {"Zero", "TimedOut"} /\ rxpc = "check" /\ rxpc' # "check")
            => rxpc' = IF stop THEN "done" ELSE "window"]_vars

\* a read of no byte went through validate with bytes counted and a backlog
\* pending, and the loop is on its way to the next read
C12_Witness ==
    /\ rxRead = "Zero"
    /\ rxRes = "Ok"
    /\ rxpc = "sleep"
    /\ bytes > 0
    /\ queue # <<>>

\* C13: a write that times out ends neither the tx loop nor the process.
C13_WriteTimeoutIsRoutine ==
    txErr = "TimedOut" => (proc = "running" /\ txpc \notin {"done", "panicked"})

\* C14: a thread holds the Mutex only while it is inside generate or
\* validate, never in a read, a write or a sleep.
C14_LockOnlyAroundCall ==
    /\ lock = "tx" => txpc = "generate"
    /\ lock = "rx" => rxpc = "validate"
    /\ lock \in {"none", "tx", "rx"}

\* tx is inside write_all while rx holds the Mutex for its validate
C14_Witness ==
    /\ txpc = "write"
    /\ lock = "rx"
    /\ rxpc = "validate"
    /\ rxBuf # <<>>

\* C15: generate leaves the bytes already in the backlog where they are and
\* appends one chunk; a validate whose data are the head of the backlog
\* removes that head and nothing else.
C15_Frame ==
    /\ op = "generate" => queue = pre \o Chunk
    /\ (op = "validate" /\ Len(arg) <= Len(pre) /\ arg = Take(pre, Len(arg)))
            => pre = arg \o queue

\* part of a backlog of more than a chunk was validated and the rest stayed
C15_Witness ==
    /\ op = "validate"
    /\ res = "Ok"
    /\ arg # <<>>
    /\ Len(pre) > ChunkSize
    /\ queue # <<>>
    /\ pre = arg \o queue

\* C16: as long as no validate has failed the rx counter is the number of
\* bytes read and validated since the speed was last printed (or since the
\* start); a failed validate adds nothing to it; the speed is printed only by
\* the window check of an iteration in which a full window has elapsed since
\* begin, and printing it resets the counter and restarts the window.
C16_RollingCounter ==
    /\ [](rxRes \in {"none", "Ok"} => bytes = consumed - reportedAt)
    /\ [][rxRes' \in {"Err", "Panic"} => bytes' = bytes]_vars
    /\ [][(reported' /\ ~reported)
            => (rxpc = "window" /\ elapsed >= Window
                    /\ bytes' = 0 /\ elapsed' = 0)]_vars
    /\ [][(rxpc = "window" /\ rxpc' # "window" /\ elapsed < Window)
            => (~reported' /\ bytes' = bytes)]_vars

\* after a first window was reported, bytes of the next one are counted
C16_Witness ==
    /\ reportedAt > 0
    /\ bytes > 0
    /\ rxRes = "Ok"
    /\ rxpc = "check"
    /\ consumed = reportedAt + bytes

\* C17: generate and validate never run at the same time: whoever is inside
\* one of them holds the Mutex.
C17_Serialized ==
    /\ txpc = "generate" => lock = "tx"
    /\ rxpc = "validate" => lock = "rx"
    /\ ~(txpc = "generate" /\ rxpc = "validate")

\* tx is inside generate while rx, with bytes to validate, waits for the
\* Mutex
C17_Witness ==
    /\ txpc = "generate"
    /\ lock = "tx"
    /\ rxpc = "lock"
    /\ rxBuf # <<>>
    /\ queue # <<>>

\* C18: a validate the backlog can serve takes len(data) bytes off the head
\* whether or not they match.
C18_DrainsOnMismatch ==
    (op = "validate" /\ Len(arg) <= Len(pre)) => queue = Drop(pre, Len(arg))

\* a mismatch shortened the backlog by len(data) and left the rest
C18_Witness ==
    /\ op = "validate"
    /\ res = "Err"
    /\ arg # <<>>
    /\ Len(arg) < Len(pre)
    /\ Len(queue) = Len(pre) - Len(arg)
    /\ queue # <<>>

\* C19: each loop looks at the flag once per iteration, after its device
\* call and its work: a loop ends only from that check, with the flag set, at
\* most one generate and at most one read are made, the rx loop ends without
\* printing the speed in its last iteration, and a tx loop that made all its
\* generate calls with the flag set has generated and written one chunk.
C19_FlagOncePerIteration ==
    /\ [](genAfterStop <= 1 /\ readAfterStop <= 1)
    /\ [](rxpc = "done" => ~reported)
    /\ []((txpc = "done" /\ genAfterStop = nGen) => (nGen = 1 /\ handed = Chunk))
    /\ [][(txpc' = "done" /\ txpc # "done") => (txpc = "check" /\ stop)]_vars
    /\ [][(rxpc' = "done" /\ rxpc # "done")
            => (rxpc = "check" /\ stop /\ UNCHANGED <<bytes, elapsed, reportedAt>>)]_vars

\* the flag was set before the tx loop generated anything; both loops made
\* one more round and ended, the rx loop with a full window unreported
C19_Witness ==
    /\ txpc = "done"
    /\ rxpc = "done"
    /\ nGen = 1
    /\ genAfterStop = 1
    /\ readAfterStop = 1
    /\ handed = Chunk
    /\ bytes > 0
    /\ elapsed >= Window

====
